---- MODULE Spec2Model ----
(***************************************************************************)
(* Model of the Granola transcript converter (convert_to_markdown.py) and  *)
(* of the downloaders (download_transcripts.py, download_meetings.py).     *)
(*                                                                         *)
(* A Python str is a sequence of characters; a character is a one-element  *)
(* TLA+ string.                                                            *)
(***************************************************************************)
EXTENDS Integers, Sequences, FiniteSets, TLC

VARIABLES
    pc,                   \* position of the running function
    transcript_data,      \* generate_markdown: the meeting record (argument)
    title,                \* generate_markdown: local
    document_id,          \* generate_markdown: local
    formatted_created,    \* generate_markdown: local
    formatted_updated,    \* generate_markdown: local
    entries,              \* generate_markdown: the list object bound to `entries`
    stats,                \* generate_markdown: result of get_transcript_stats
    duration,             \* generate_markdown: result of calculate_duration
    formatted_transcript, \* generate_markdown: result of format_transcript_entries
    markdown_content,     \* generate_markdown: the returned document
    raised,               \* exception that left generate_markdown, or NoException
    filename,             \* sanitize_filename: the argument
    sanitized             \* sanitize_filename: the returned name

VARIABLES
    resanitized,          \* sanitize_filename applied to its own result
    documents,            \* filter_documents_by_date: the argument
    days_ago,             \* filter_documents_by_date: the argument
    now,                  \* filter_documents_by_date: datetime.now()
    filtered_docs,        \* filter_documents_by_date: the returned list
    limit,                \* fetch_granola_documents: the argument
    offset,               \* fetch_granola_documents: local
    all_documents,        \* fetch_granola_documents: local
    requested,            \* offsets of the requests sent so far, in order
    pages,                \* the pages received so far, in order
    fetched,              \* fetch_granola_documents: the returned value
    driver,               \* the batch driver that runs
    force,                \* batch driver: the force flag
    work_items,           \* batch driver: json_files / documents
    index,                \* batch driver: number of items already processed
    files,                \* the output directory: file name -> content
    done_count,           \* converted_count / downloaded_count
    skipped_count,        \* batch driver: local
    error_count,          \* batch driver: local
    log,                  \* what happened to each processed item, in order
    run                   \* 1 for the first run of the driver, 2 for the rerun

filterVars == <<documents, days_ago, now, filtered_docs>>

fetchVars == <<limit, offset, all_documents, requested, pages, fetched>>

batchVars == <<driver, force, work_items, index, files, done_count,
               skipped_count, error_count, log, run>>

driverVars == <<resanitized, filterVars, fetchVars, batchVars>>

vars == <<pc, transcript_data, title, document_id, formatted_created,
          formatted_updated, entries, stats, duration, formatted_transcript,
          markdown_content, raised, filename, sanitized, driverVars>>

locals == <<title, document_id, formatted_created, formatted_updated, entries,
            stats, duration, formatted_transcript, markdown_content>>

(***************************************************************************)
(* Bounds of the model.                                                    *)
(***************************************************************************)
MaxEntries == 2       \* longest transcript entry list
MaxAffix == 2         \* longest free prefix / suffix of a file name

(***************************************************************************)
(* Values that are not Python strings.                                     *)
(***************************************************************************)
None == << "<None>" >>          \* Python's None (what dict.get gives for a missing key)
NotSet == << "<unset>" >>       \* local variable not assigned yet
NoException == "<none>"

\* the state of the functions that do not run in a behaviour
IdleFilter ==
    /\ documents = NotSet /\ days_ago = NotSet /\ now = NotSet
    /\ filtered_docs = NotSet

IdleFetch ==
    /\ limit = NotSet /\ offset = NotSet /\ all_documents = NotSet
    /\ requested = NotSet /\ pages = NotSet /\ fetched = NotSet

IdleBatch ==
    /\ driver = NotSet /\ force = NotSet /\ work_items = NotSet /\ index = NotSet
    /\ files = NotSet /\ done_count = NotSet /\ skipped_count = NotSet
    /\ error_count = NotSet /\ log = NotSet /\ run = NotSet

IdleDrivers == resanitized = NotSet /\ IdleFilter /\ IdleFetch /\ IdleBatch

(***************************************************************************)
(* Characters.  Ascii lists the code points 32..126 in order; the control  *)
(* characters are named tokens below code point 32.                        *)
(***************************************************************************)
NUL == "<NUL>"
TAB == "\t"
LF == "\n"
VT == "<VT>"
FF == "\f"
CR == "\r"
BACKTICK == "<BACKTICK>"

Ascii ==
    << " ", "!", "\"", "#", "$", "%", "&", "'", "(", ")", "*", "+", ",", "-",
       ".", "/", "0", "1", "2", "3", "4", "5", "6", "7", "8", "9", ":", ";",
       "<", "=", ">", "?", "@", "A", "B", "C", "D", "E", "F", "G", "H", "I",
       "J", "K", "L", "M", "N", "O", "P", "Q", "R", "S", "T", "U", "V", "W",
       "X", "Y", "Z", "[", "\\", "]", "^", "_", BACKTICK, "a", "b", "c", "d", "e",
       "f", "g", "h", "i", "j", "k", "l", "m", "n", "o", "p", "q", "r", "s",
       "t", "u", "v", "w", "x", "y", "z", "{", "|", "}", "~" >>

Range(s) == { s[i] : i \in 1..Len(s) }

Controls == << NUL, TAB, LF, VT, FF, CR >>
ControlCode == << 0, 9, 10, 11, 12, 13 >>

Chars == Range(Ascii) \cup Range(Controls)

Ord(c) ==                        \* ord(c)
    IF c \in Range(Controls)
    THEN ControlCode[CHOOSE i \in 1..Len(Controls) : Controls[i] = c]
    ELSE 31 + (CHOOSE i \in 1..Len(Ascii) : Ascii[i] = c)

string_digits == { Ascii[i] : i \in 17..26 }
string_ascii_letters == { Ascii[i] : i \in (34..59) \cup (66..91) }
string_punctuation ==
    { Ascii[i] : i \in (2..16) \cup (27..33) \cup (60..65) \cup (92..95) }
string_whitespace == { " ", TAB, LF, CR, VT, FF }
string_printable ==
    string_digits \cup string_ascii_letters \cup string_punctuation
        \cup string_whitespace

(***************************************************************************)
(* str helpers.                                                            *)
(***************************************************************************)
RECURSIVE StrLess(_, _)
StrLess(a, b) ==                 \* a < b, code point by code point
    IF b = <<>> THEN FALSE
    ELSE IF a = <<>> THEN TRUE
    ELSE IF Head(a) = Head(b) THEN StrLess(Tail(a), Tail(b))
    ELSE Ord(Head(a)) < Ord(Head(b))

RECURSIVE LStrip(_, _)
LStrip(s, chars) ==
    IF s # <<>> /\ Head(s) \in chars THEN LStrip(Tail(s), chars) ELSE s

RECURSIVE RStrip(_, _)
RStrip(s, chars) ==
    IF s # <<>> /\ s[Len(s)] \in chars
    THEN RStrip(SubSeq(s, 1, Len(s) - 1), chars) ELSE s

Strip(s, chars) == RStrip(LStrip(s, chars), chars)

Prefix(s, n) == SubSeq(s, 1, IF Len(s) < n THEN Len(s) ELSE n)   \* s[:n]

RECURSIVE Join(_, _)
Join(sep, parts) ==              \* sep.join(parts)
    IF parts = <<>> THEN <<>>
    ELSE IF Len(parts) = 1 THEN parts[1]
    ELSE parts[1] \o sep \o Join(sep, Tail(parts))

(***************************************************************************)
(* sanitize_filename                                                       *)
(***************************************************************************)
UnsafeChars == { "<", ">", ":", "\"", "/", "\\", "|", "?", "*" }
MaxFilenameLength == 100
Untitled == << "u", "n", "t", "i", "t", "l", "e", "d" >>

ReplaceUnsafe(s) ==
    [ i \in 1..Len(s) |->
        IF s[i] \in string_printable /\ s[i] \notin UnsafeChars
        THEN s[i] ELSE "-" ]

HasDoubleDash(s) ==
    \E i \in 1..(Len(s) - 1) : s[i] = "-" /\ s[i + 1] = "-"

\* s.replace('--', '-') replaces the non-overlapping occurrences found from the
\* left: of a maximal run of k dashes the dashes at even offsets 0, 2, ...
\* remain.  (Written without recursion: the strings are 100 characters long.)
DashOffset(s, i) ==              \* number of dashes directly before s[i]
    LET stops == { j \in 0..(i - 1) : j = 0 \/ s[j] # "-" }
        last == CHOOSE j \in stops : \A k \in stops : k <= j
    IN  i - last - 1

RECURSIVE Pick(_, _, _, _)
Pick(s, kept, lo, hi) ==         \* the characters of s[lo..hi] at the indices in kept
    IF lo > hi THEN <<>>
    ELSE IF lo = hi THEN (IF lo \in kept THEN << s[lo] >> ELSE <<>>)
    ELSE LET mid == (lo + hi) \div 2
         IN  Pick(s, kept, lo, mid) \o Pick(s, kept, mid + 1, hi)

ReplaceDoubleDash(s) ==
    Pick(s, { i \in 1..Len(s) : s[i] # "-" \/ DashOffset(s, i) % 2 = 0 },
         1, Len(s))

RECURSIVE CollapseDashes(_)
CollapseDashes(s) ==             \* while '--' in s: s = s.replace('--', '-')
    IF HasDoubleDash(s) THEN CollapseDashes(ReplaceDoubleDash(s)) ELSE s

StripThenTruncate(s) == Prefix(Strip(s, { "-" }), MaxFilenameLength)

OrUntitled(cut) == IF cut # <<>> THEN cut ELSE Untitled     \* line 47

sanitize_filename(name) ==
    IF name = <<>> THEN Untitled
    ELSE OrUntitled(StripThenTruncate(CollapseDashes(ReplaceUnsafe(name))))

(***************************************************************************)
(* dicts: the field `keys` is the set of keys the dict has; a field whose  *)
(* key is not in `keys` holds a filler that is never read.                 *)
(***************************************************************************)
Has(d, k) == k \in d.keys                          \* k in d
Get(d, k, default) == IF k \in d.keys THEN d[k] ELSE default   \* d.get(k, default)
Truthy(v) == v # None /\ v # <<>>                  \* bool(v) of a str or None

(***************************************************************************)
(* Exceptions: an operation that can raise gives a result record.          *)
(***************************************************************************)
Return(v) == [ raises |-> NoException, value |-> v ]
Raise(e) == [ raises |-> e, value |-> <<>> ]
Except(result, fallback) ==      \* try: result / except Exception: fallback
    IF result.raises # NoException THEN Return(fallback) ELSE result

(***************************************************************************)
(* datetime                                                                *)
(***************************************************************************)
DigitChar(d) == Ascii[17 + d]
DigitValue(c) == CHOOSE d \in 0..9 : DigitChar(d) = c
IsDigits(s, positions) == \A i \in positions : s[i] \in string_digits
Num2(s, i) == 10 * DigitValue(s[i]) + DigitValue(s[i + 1])
Num4(s, i) == 100 * Num2(s, i) + Num2(s, i + 2)
TwoDigits(n) == << DigitChar((n \div 10) % 10), DigitChar(n % 10) >>
FourDigits(n) == TwoDigits(n \div 100) \o TwoDigits(n % 100)

RECURSIVE IntToStr(_)
IntToStr(n) ==                   \* str(n) for n >= 0
    IF n < 10 THEN << DigitChar(n) >>
    ELSE IntToStr(n \div 10) \o << DigitChar(n % 10) >>

UtcSuffix == << "+", "0", "0", ":", "0", "0" >>

RECURSIVE ReplaceZ(_)
ReplaceZ(s) ==                   \* s.replace('Z', '+00:00')
    IF s = <<>> THEN <<>>
    ELSE (IF Head(s) = "Z" THEN UtcSuffix ELSE << Head(s) >>) \o ReplaceZ(Tail(s))

EndsWithZ(s) == s # <<>> /\ s[Len(s)] = "Z"

IsLeap(y) == y % 4 = 0 /\ (y % 100 # 0 \/ y % 400 = 0)
DaysInMonth(y, m) ==
    IF m = 2 THEN (IF IsLeap(y) THEN 29 ELSE 28)
    ELSE IF m \in { 4, 6, 9, 11 } THEN 30 ELSE 31

RECURSIVE DaysBeforeMonth(_, _)
DaysBeforeMonth(y, m) ==
    IF m = 1 THEN 0 ELSE DaysBeforeMonth(y, m - 1) + DaysInMonth(y, m - 1)

ToOrdinal(dt) ==                 \* date.toordinal()
    LET y == dt.year - 1
    IN  y * 365 + (y \div 4) - (y \div 100) + (y \div 400)
          + DaysBeforeMonth(dt.year, dt.month) + dt.day

\* datetime.fromisoformat for the shapes YYYY-MM-DD, YYYY-MM-DD?HH:MM:SS and
\* YYYY-MM-DD?HH:MM:SS(+|-)HH:MM; every other string is a ValueError.
DateShape(s) ==
    /\ IsDigits(s, { 1, 2, 3, 4, 6, 7, 9, 10 })
    /\ s[5] = "-" /\ s[8] = "-"

TimeShape(s) ==
    /\ IsDigits(s, { 12, 13, 15, 16, 18, 19 })
    /\ s[14] = ":" /\ s[17] = ":"

ZoneShape(s) ==
    /\ s[20] \in { "+", "-" }
    /\ IsDigits(s, { 21, 22, 24, 25 })
    /\ s[23] = ":"

IsoShape(s) ==
    /\ Len(s) \in { 10, 19, 25 }
    /\ DateShape(s)
    /\ (Len(s) > 10 => TimeShape(s))
    /\ (Len(s) > 19 => ZoneShape(s))

IsoFields(s) ==
    [ year |-> Num4(s, 1), month |-> Num2(s, 6), day |-> Num2(s, 9),
      hour |-> IF Len(s) > 10 THEN Num2(s, 12) ELSE 0,
      minute |-> IF Len(s) > 10 THEN Num2(s, 15) ELSE 0,
      second |-> IF Len(s) > 10 THEN Num2(s, 18) ELSE 0,
      aware |-> Len(s) > 19,
      utcoffset |-> IF Len(s) > 19
                    THEN (IF s[20] = "-" THEN -1 ELSE 1)
                           * (Num2(s, 21) * 3600 + Num2(s, 24) * 60)
                    ELSE 0 ]

IsoValid(s, dt) ==
    /\ dt.year >= 1
    /\ dt.month \in 1..12
    /\ dt.day \in 1..DaysInMonth(dt.year, dt.month)
    /\ dt.hour < 24 /\ dt.minute < 60 /\ dt.second < 60
    /\ (Len(s) > 19 => Num2(s, 21) < 24 /\ Num2(s, 24) < 60)

IsoChecked(s, dt) == IF IsoValid(s, dt) THEN Return(dt) ELSE Raise("ValueError")

fromisoformat(s) ==
    IF IsoShape(s) THEN IsoChecked(s, IsoFields(s)) ELSE Raise("ValueError")

\* end_dt - start_dt: a timedelta, normalised to 0 <= seconds < 86400;
\* TypeError when one datetime has a zone and the other has none.
ClockSeconds(dt) == dt.hour * 3600 + dt.minute * 60 + dt.second - dt.utcoffset

Timedelta(total) == [ days |-> total \div 86400, seconds |-> total % 86400 ]

Subtract(end_dt, start_dt) ==
    IF end_dt.aware # start_dt.aware THEN Raise("TypeError")
    ELSE Return(Timedelta((ToOrdinal(end_dt) - ToOrdinal(start_dt)) * 86400
                            + ClockSeconds(end_dt) - ClockSeconds(start_dt)))

WeekdayNames ==
    << << "M", "o", "n", "d", "a", "y" >>,
       << "T", "u", "e", "s", "d", "a", "y" >>,
       << "W", "e", "d", "n", "e", "s", "d", "a", "y" >>,
       << "T", "h", "u", "r", "s", "d", "a", "y" >>,
       << "F", "r", "i", "d", "a", "y" >>,
       << "S", "a", "t", "u", "r", "d", "a", "y" >>,
       << "S", "u", "n", "d", "a", "y" >> >>

MonthNames ==
    << << "J", "a", "n", "u", "a", "r", "y" >>,
       << "F", "e", "b", "r", "u", "a", "r", "y" >>,
       << "M", "a", "r", "c", "h" >>,
       << "A", "p", "r", "i", "l" >>,
       << "M", "a", "y" >>,
       << "J", "u", "n", "e" >>,
       << "J", "u", "l", "y" >>,
       << "A", "u", "g", "u", "s", "t" >>,
       << "S", "e", "p", "t", "e", "m", "b", "e", "r" >>,
       << "O", "c", "t", "o", "b", "e", "r" >>,
       << "N", "o", "v", "e", "m", "b", "e", "r" >>,
       << "D", "e", "c", "e", "m", "b", "e", "r" >> >>

\* dt.strftime('%A, %B %d, %Y at %I:%M %p')
Hour12(hour) == IF hour % 12 = 0 THEN 12 ELSE hour % 12

StrftimeDisplay(dt) ==
    WeekdayNames[((ToOrdinal(dt) + 6) % 7) + 1] \o << ",", " " >>
        \o MonthNames[dt.month] \o << " " >> \o TwoDigits(dt.day)
        \o << ",", " " >> \o FourDigits(dt.year) \o << " ", "a", "t", " " >>
        \o TwoDigits(Hour12(dt.hour)) \o << ":" >> \o TwoDigits(dt.minute)
        \o << " " >> \o (IF dt.hour < 12 THEN << "A", "M" >> ELSE << "P", "M" >>)

\* dt.strftime('%H:%M:%S')
StrftimeClock(dt) ==
    TwoDigits(dt.hour) \o << ":" >> \o TwoDigits(dt.minute) \o << ":" >>
        \o TwoDigits(dt.second)

\* strftime applied to a parsed datetime; a failed parse stays the failure
DisplayOf(dt) ==
    IF dt.raises # NoException THEN dt ELSE Return(StrftimeDisplay(dt.value))

ClockOf(dt) ==
    IF dt.raises # NoException THEN dt ELSE Return(StrftimeClock(dt.value))

format_datetime(iso_string) ==   \* lines 52-59
    Except(DisplayOf(fromisoformat(ReplaceZ(iso_string))), iso_string)

format_timestamp(timestamp_str) ==             \* lines 64-74
    Except(ClockOf(fromisoformat(IF EndsWithZ(timestamp_str)
                                 THEN ReplaceZ(timestamp_str)
                                 ELSE timestamp_str)),
           timestamp_str)

(***************************************************************************)
(* format_transcript_entries                                               *)
(***************************************************************************)
NoTranscript ==
    << "*", "N", "o", " ", "t", "r", "a", "n", "s", "c", "r", "i", "p", "t",
       " ", "a", "v", "a", "i", "l", "a", "b", "l", "e", "*" >>
Microphone == << "m", "i", "c", "r", "o", "p", "h", "o", "n", "e" >>
Me == << "m", "e" >>
Them == << "t", "h", "e", "m" >>
BlankLine == << LF, LF >>

\* sorted(xs, key=...): Python's sort is stable, so the element at index i
\* lands behind every element with a smaller key and every earlier element
\* with an equal key.  less[i][j] is "key(xs[i]) < key(xs[j])".
Sorted(xs, less) ==
    LET rank(i) == Cardinality({ j \in 1..Len(xs) :
                       less[j][i] \/ (~less[i][j] /\ j < i) })
    IN  [ r \in 1..Len(xs) |-> xs[CHOOSE i \in 1..Len(xs) : rank(i) = r - 1] ]

\* variant: an entry without sequence_number sorts behind the numbered ones
SequenceKeyMissingLast(x) == Get(x, "sequence_number", 2)
SequenceKey(x) == Get(x, "sequence_number", 0)
TimestampKey(x) == Get(x, "start_timestamp", <<>>)

\* variant: the key is sequence_number as soon as any entry carries one
SortEntriesAnySequence(entries_arg) ==
    IF \E i \in 1..Len(entries_arg) : Has(entries_arg[i], "sequence_number")
    THEN Sorted(entries_arg, [ i \in 1..Len(entries_arg) |-> [ j \in 1..Len(entries_arg) |->
             SequenceKey(entries_arg[i]) < SequenceKey(entries_arg[j]) ] ])
    ELSE IF Has(entries_arg[1], "start_timestamp")
    THEN Sorted(entries_arg, [ i \in 1..Len(entries_arg) |-> [ j \in 1..Len(entries_arg) |->
             StrLess(TimestampKey(entries_arg[i]), TimestampKey(entries_arg[j])) ] ])
    ELSE entries_arg

SortEntries(entries_arg) ==      \* lines 86-94; entries_arg is not empty
    IF Has(entries_arg[1], "sequence_number")
    THEN Sorted(entries_arg, [ i \in 1..Len(entries_arg) |-> [ j \in 1..Len(entries_arg) |->
             SequenceKey(entries_arg[i]) < SequenceKey(entries_arg[j]) ] ])
    ELSE IF Has(entries_arg[1], "start_timestamp")
    THEN Sorted(entries_arg, [ i \in 1..Len(entries_arg) |-> [ j \in 1..Len(entries_arg) |->
             StrLess(TimestampKey(entries_arg[i]), TimestampKey(entries_arg[j])) ] ])
    ELSE entries_arg

\* variant: entries.sort(...) in place of sorted(entries, ...)
ListAfterSortInPlace(entries_arg) == SortEntries(entries_arg)

\* sorted() builds a new list: the list passed in stays as it was.
ListAfterSorted(entries_arg) == entries_arg

EntryText(entry) == Strip(Get(entry, "text", <<>>), string_whitespace)

BodySpeakerName(entry) ==        \* lines 103-112
    LET source == Get(entry, "source", <<>>)
        speaker == Get(entry, "speaker", <<>>)
    IN  IF source = Microphone THEN Me
        ELSE IF speaker # <<>> THEN speaker
        ELSE Them

TimedLine(timestamp, speaker_name, text) ==    \* f"**[{timestamp}] {speaker_name}:** {text}"
    << "*", "*", "[" >> \o timestamp \o << "]", " " >> \o speaker_name
        \o << ":", "*", "*", " " >> \o text

PlainLine(speaker_name, text) ==               \* f"**{speaker_name}:** {text}"
    << "*", "*" >> \o speaker_name \o << ":", "*", "*", " " >> \o text

WithTimestamp(timestamp, speaker_name, text) ==
    IF timestamp.raises # NoException THEN timestamp
    ELSE Return(TimedLine(timestamp.value, speaker_name, text))

FormatEntry(entry, speaker_name) ==            \* lines 114-120
    IF Truthy(Get(entry, "start_timestamp", None))
    THEN WithTimestamp(format_timestamp(entry.start_timestamp), speaker_name,
                       EntryText(entry))
    ELSE Return(PlainLine(speaker_name, EntryText(entry)))

FormatAll(picked) ==
    [ i \in 1..Len(picked) |-> FormatEntry(picked[i], BodySpeakerName(picked[i])) ]

\* the loop of lines 98-120: the results of the entries that are not skipped
FormattedLines(sorted_entries) ==
    FormatAll(Pick(sorted_entries,
                   { i \in 1..Len(sorted_entries) : EntryText(sorted_entries[i]) # <<>> },
                   1, Len(sorted_entries)))

FirstRaise(results) ==
    results[CHOOSE i \in 1..Len(results) :
                /\ results[i].raises # NoException
                /\ \A j \in 1..(i - 1) : results[j].raises = NoException]

JoinLines(formatted_lines) ==                  \* line 122
    IF \E i \in 1..Len(formatted_lines) : formatted_lines[i].raises # NoException
    THEN FirstRaise(formatted_lines)
    ELSE Return(Join(BlankLine,
                     [ i \in 1..Len(formatted_lines) |-> formatted_lines[i].value ]))

format_transcript_entries(entries_arg) ==
    IF entries_arg = <<>> THEN Return(NoTranscript)
    ELSE JoinLines(FormattedLines(SortEntries(entries_arg)))

(***************************************************************************)
(* calculate_duration                                                      *)
(***************************************************************************)
Unknown == << "U", "n", "k", "n", "o", "w", "n" >>

ValuesOf(picked, key) == [ i \in 1..Len(picked) |-> picked[i][key] ]

\* variant: timestamps are collected from the entries that have text only
PresentSpoken(entries_arg, key) ==
    ValuesOf(Pick(entries_arg,
                  { i \in 1..Len(entries_arg) :
                      /\ Truthy(Get(entries_arg[i], key, None))
                      /\ Strip(Get(entries_arg[i], "text", <<>>), string_whitespace) # <<>> },
                  1, Len(entries_arg)),
             key)

Present(entries_arg, key) ==     \* [e.get(key) for e in entries if e.get(key)]
    ValuesOf(Pick(entries_arg,
                  { i \in 1..Len(entries_arg) : Truthy(Get(entries_arg[i], key, None)) },
                  1, Len(entries_arg)),
             key)

MinStr(strs) == CHOOSE x \in Range(strs) : \A y \in Range(strs) : ~StrLess(y, x)
MaxStr(strs) == CHOOSE x \in Range(strs) : \A y \in Range(strs) : ~StrLess(x, y)

Plural(n, word) == IF n # 1 THEN word \o << "s" >> ELSE word

TimedeltaSeconds(delta) == delta.seconds       \* duration.seconds

MinutesText(minutes) ==
    IntToStr(minutes) \o << " " >> \o Plural(minutes, << "m", "i", "n", "u", "t", "e" >>)

HoursText(hours) ==
    IntToStr(hours) \o << " " >>
        \o (IF hours > 1 THEN << "h", "o", "u", "r", "s" >> ELSE << "h", "o", "u", "r" >>)

HoursMinutes(hours, minutes) ==  \* lines 148-151
    IF hours > 0 THEN HoursText(hours) \o << " " >> \o MinutesText(minutes)
    ELSE MinutesText(minutes)

DurationText(delta) ==           \* lines 145-151
    HoursMinutes(TimedeltaSeconds(delta) \div 3600,
                 (TimedeltaSeconds(delta) % 3600) \div 60)

FromDelta(delta) ==              \* lines 143-151
    IF delta.raises # NoException THEN delta ELSE Return(DurationText(delta.value))

FromDatetimes(start_dt, end_dt) ==             \* lines 140-151
    IF start_dt.raises # NoException THEN start_dt
    ELSE IF end_dt.raises # NoException THEN end_dt
    ELSE FromDelta(Subtract(end_dt.value, start_dt.value))

FromTimes(start_times, end_times) ==           \* lines 137-151
    IF start_times = <<>> \/ end_times = <<>> THEN Return(Unknown)
    ELSE FromDatetimes(fromisoformat(ReplaceZ(MinStr(start_times))),
                       fromisoformat(ReplaceZ(MaxStr(end_times))))

calculate_duration_try(entries_arg) ==         \* the try block, lines 130-151
    IF entries_arg = <<>> THEN Return(Unknown)
    ELSE FromTimes(Present(entries_arg, "start_timestamp"),
                   Present(entries_arg, "end_timestamp"))

\* variant: no try/except around the computation
calculate_duration_unguarded(entries_arg) == calculate_duration_try(entries_arg)

calculate_duration(entries_arg) == Except(calculate_duration_try(entries_arg), Unknown)

(***************************************************************************)
(* get_transcript_stats                                                    *)
(***************************************************************************)
\* variant: the speaker field is looked at before the source
StatsSpeakerNameSpeakerFirst(entry) ==
    LET source == Get(entry, "source", <<>>)
        speaker == Get(entry, "speaker", <<>>)
    IN  IF speaker # <<>> THEN speaker
        ELSE IF source = Microphone THEN Me
        ELSE Them

StatsSpeakerName(entry) ==       \* lines 170-178
    LET source == Get(entry, "source", <<>>)
        speaker == Get(entry, "speaker", <<>>)
    IN  IF source = Microphone THEN Me
        ELSE IF speaker # <<>> THEN speaker
        ELSE Them

WordCount(text) ==               \* len(text.split())
    Cardinality({ i \in 1..Len(text) :
        /\ text[i] \notin string_whitespace
        /\ (i = 1 \/ text[i - 1] \in string_whitespace) })

RECURSIVE SumWords(_)
SumWords(entries_arg) ==
    IF entries_arg = <<>> THEN 0
    ELSE WordCount(Get(Head(entries_arg), "text", <<>>)) + SumWords(Tail(entries_arg))

get_transcript_stats(entries_arg) ==
    IF entries_arg = <<>>
    THEN [ total_entries |-> 0, speakers |-> 0, words |-> 0 ]
    ELSE [ total_entries |-> Len(entries_arg),
           speakers |-> Cardinality({ StatsSpeakerName(entries_arg[i]) :
                                        i \in 1..Len(entries_arg) }),
           words |-> SumWords(entries_arg) ]

(***************************************************************************)
(* generate_markdown, one action per group of statements.                  *)
(***************************************************************************)
UntitledMeeting ==
    << "U", "n", "t", "i", "t", "l", "e", "d", " ", "M", "e", "e", "t", "i", "n", "g" >>

TitleOf(data) == Get(data, "title", UntitledMeeting)        \* line 195

DisplayDate(value) ==            \* format_datetime(value) if value else 'Unknown'
    IF value # <<>> THEN format_datetime(value) ELSE Return(Unknown)

Propagate(exception) ==          \* an exception leaves generate_markdown
    /\ raised' = exception
    /\ pc' = "raised"

Continue(result, next_pc) ==     \* go on, unless the call raised
    IF result.raises # NoException THEN Propagate(result.raises)
    ELSE pc' = next_pc /\ UNCHANGED raised

Dates(created, updated) ==       \* lines 202-203
    /\ formatted_created' = created.value
    /\ formatted_updated' = updated.value
    /\ Continue(IF created.raises # NoException THEN created ELSE updated,
                "get_transcript_stats")

GetFields ==                     \* lines 195-203
    /\ pc = "generate_markdown"
    /\ title' = TitleOf(transcript_data)
    /\ document_id' = Get(transcript_data, "document_id", <<>>)
    /\ entries' = Get(transcript_data, "transcript_entries", <<>>)
    /\ Dates(DisplayDate(Get(transcript_data, "created_at", <<>>)),
             DisplayDate(Get(transcript_data, "updated_at", <<>>)))
    /\ UNCHANGED <<transcript_data, stats, duration, formatted_transcript,
                   markdown_content, filename, sanitized>>
    /\ UNCHANGED driverVars

GetStats ==                      \* line 206
    /\ pc = "get_transcript_stats"
    /\ stats' = get_transcript_stats(entries)
    /\ pc' = "calculate_duration"
    /\ UNCHANGED <<transcript_data, title, document_id, formatted_created,
                   formatted_updated, entries, duration, formatted_transcript,
                   markdown_content, raised, filename, sanitized>>
    /\ UNCHANGED driverVars

DurationResult(result) ==
    /\ duration' = result.value
    /\ Continue(result, "format_transcript_entries")

CalculateDuration ==             \* line 207
    /\ pc = "calculate_duration"
    /\ DurationResult(calculate_duration(entries))
    /\ UNCHANGED <<transcript_data, title, document_id, formatted_created,
                   formatted_updated, entries, stats, formatted_transcript,
                   markdown_content, filename, sanitized>>
    /\ UNCHANGED driverVars

TranscriptResult(result) ==
    /\ formatted_transcript' = result.value
    /\ Continue(result, "assemble")

FormatTranscript ==              \* line 210
    /\ pc = "format_transcript_entries"
    /\ TranscriptResult(format_transcript_entries(entries))
    /\ entries' = IF entries = <<>> THEN entries ELSE ListAfterSorted(entries)
    /\ UNCHANGED <<transcript_data, title, document_id, formatted_created,
                   formatted_updated, stats, duration, markdown_content,
                   filename, sanitized>>
    /\ UNCHANGED driverVars

Assemble ==                      \* lines 213-239: the values put in the template
    /\ pc = "assemble"
    /\ markdown_content' =
           [ title_line |-> << "#", " " >> \o title,
             date |-> formatted_created,
             updated |-> formatted_updated,
             duration |-> duration,
             document_id |-> document_id,
             total_entries |-> IntToStr(stats.total_entries),
             speakers |-> IntToStr(stats.speakers),
             words |-> IntToStr(stats.words),
             transcript |-> formatted_transcript ]
    /\ pc' = "return"
    /\ UNCHANGED <<transcript_data, title, document_id, formatted_created,
                   formatted_updated, entries, stats, duration,
                   formatted_transcript, raised, filename, sanitized>>
    /\ UNCHANGED driverVars

(***************************************************************************)
(* Meeting records given to generate_markdown.                             *)
(***************************************************************************)
Missing(filler) == [ has |-> FALSE, v |-> filler ]
Optional(values, filler) ==
    { Missing(filler) } \cup { [ has |-> TRUE, v |-> x ] : x \in values }
Value(x) == [ has |-> TRUE, v |-> x ]
Given(values) == { Value(x) : x \in values }

MakeEntry(text, source, speaker, start, end, seq) ==
    [ keys |-> (IF text.has THEN { "text" } ELSE {})
                 \cup (IF source.has THEN { "source" } ELSE {})
                 \cup (IF speaker.has THEN { "speaker" } ELSE {})
                 \cup (IF start.has THEN { "start_timestamp" } ELSE {})
                 \cup (IF end.has THEN { "end_timestamp" } ELSE {})
                 \cup (IF seq.has THEN { "sequence_number" } ELSE {}),
      text |-> text.v, source |-> source.v, speaker |-> speaker.v,
      start_timestamp |-> start.v, end_timestamp |-> end.v,
      sequence_number |-> seq.v ]

MakeRecord(title_, created, updated, id, list) ==
    [ keys |-> (IF title_.has THEN { "title" } ELSE {})
                 \cup (IF created.has THEN { "created_at" } ELSE {})
                 \cup (IF updated.has THEN { "updated_at" } ELSE {})
                 \cup (IF id.has THEN { "document_id" } ELSE {})
                 \cup (IF list.has THEN { "transcript_entries" } ELSE {}),
      title |-> title_.v, created_at |-> created.v, updated_at |-> updated.v,
      document_id |-> id.v, transcript_entries |-> list.v ]

\* "2024-01-DDTHH:MM:00" followed by the zone text
Stamp(day, hour, minute, zone) ==
    << "2", "0", "2", "4", "-", "0", "1", "-" >> \o TwoDigits(day) \o << "T" >>
        \o TwoDigits(hour) \o << ":" >> \o TwoDigits(minute)
        \o << ":", "0", "0" >> \o zone

Zulu == << "Z" >>
Malformed == << "x", "Z" >>
NoStr == Missing(<<>>)
NoInt == Missing(0)

RECURSIVE ListsUpTo(_, _)
ListsUpTo(items, n) ==
    IF n = 0 THEN { <<>> }
    ELSE LET shorter == ListsUpTo(items, n - 1)
         IN  shorter \cup { Append(l, x) : l \in shorter, x \in items }

\* entries that differ in their sort keys
OrderEntries ==
    { MakeEntry(text, NoStr, NoStr, start, NoStr, seq) :
        text \in Given({ << "a" >>, << "b" >> }),
        start \in Optional({ Stamp(1, 10, 0, Zulu), Stamp(1, 9, 0, Zulu) }, <<>>),
        seq \in Optional({ -1, 1 }, 0) }

\* entries that differ in who speaks
SpeakerEntries ==
    { MakeEntry(text, source, speaker, NoStr, NoStr, NoInt) :
        text \in Given({ <<>>, << "a" >> }),
        source \in Optional({ Microphone, << "s", "y", "s" >> }, <<>>),
        speaker \in Optional({ <<>>, << "A", "l" >> }, <<>>) }

\* entries that differ in their text
TextEntries ==
    { MakeEntry(text, NoStr, NoStr, start, NoStr, NoInt) :
        text \in Optional({ <<>>, << " ", LF >>, << " ", "a", " ", "b", " " >> }, <<>>),
        start \in Optional({ <<>>, Stamp(1, 10, 0, Zulu), Malformed }, <<>>) }

\* entries that differ in their timestamps
TimedEntries ==
    { MakeEntry(Value(<<>>), NoStr, NoStr, start, end, NoInt) :
        start \in Optional({ Stamp(1, 10, 0, Zulu), Stamp(1, 10, 0, <<>>),
                             Malformed }, <<>>),
        end \in Optional({ Stamp(1, 11, 45, Zulu), Stamp(1, 12, 1, Zulu),
                           Stamp(2, 11, 45, Zulu), Malformed }, <<>>) }

EntryLists ==
    ListsUpTo(OrderEntries, MaxEntries) \cup ListsUpTo(SpeakerEntries, MaxEntries)
        \cup ListsUpTo(TextEntries, MaxEntries) \cup ListsUpTo(TimedEntries, MaxEntries)

SomeTitle == << "T" >>
SomeDate == << "2", "0", "2", "4", "-", "0", "3", "-", "1", "5", "T", "0", "9",
               ":", "3", "0", ":", "0", "0", "Z" >>
SomeEntry == MakeEntry(Value(<< "a" >>), NoStr, NoStr, NoStr, NoStr, NoInt)

MeetingRecords ==
    { MakeRecord(Value(SomeTitle), Value(SomeDate), NoStr, NoStr, Value(list)) : list \in EntryLists }
    \cup
    { MakeRecord(title_, created, updated, id, list) :
        title_ \in Optional({ <<>>, SomeTitle }, <<>>),
        created \in Optional({ <<>>, SomeDate, Malformed }, <<>>),
        updated \in Optional({ <<>>, SomeDate }, <<>>),
        id \in Optional({ <<>>, << "d" >> }, <<>>),
        list \in Optional({ <<>>, << SomeEntry >> }, <<>>) }

Init ==
    /\ pc = "generate_markdown"
    /\ transcript_data \in MeetingRecords
    /\ title = NotSet
    /\ document_id = NotSet
    /\ formatted_created = NotSet
    /\ formatted_updated = NotSet
    /\ entries = NotSet
    /\ stats = NotSet
    /\ duration = NotSet
    /\ formatted_transcript = NotSet
    /\ markdown_content = NotSet
    /\ raised = NoException
    /\ filename = <<>>
    /\ sanitized = NotSet
    /\ IdleDrivers

Next ==
    \/ GetFields
    \/ GetStats
    \/ CalculateDuration
    \/ FormatTranscript
    \/ Assemble

Spec == Init /\ [][Next]_vars

(***************************************************************************)
(* File names given to sanitize_filename: a free prefix, a run of 'a', a   *)
(* free suffix.  The run lengths straddle the 100 character limit.         *)
(***************************************************************************)
FilenameChars == { "a", "-", "/", NUL }
RunLengths == { 0 } \cup ((MaxFilenameLength - 3)..MaxFilenameLength)

RECURSIVE StringsUpTo(_, _)
StringsUpTo(chars, n) ==
    IF n = 0 THEN { <<>> }
    ELSE LET shorter == StringsUpTo(chars, n - 1)
         IN  shorter \cup { Append(s, c) : s \in shorter, c \in chars }

Run(c, n) == [ i \in 1..n |-> c ]

Filenames ==
    { head \o Run("a", n) \o tail :
        head \in StringsUpTo(FilenameChars, MaxAffix),
        n \in RunLengths,
        tail \in StringsUpTo(FilenameChars, MaxAffix) }

IdleRender ==
    /\ transcript_data = NotSet
    /\ title = NotSet
    /\ document_id = NotSet
    /\ formatted_created = NotSet
    /\ formatted_updated = NotSet
    /\ entries = NotSet
    /\ stats = NotSet
    /\ duration = NotSet
    /\ formatted_transcript = NotSet
    /\ markdown_content = NotSet
    /\ raised = NoException

InitSanitize ==
    /\ pc = "sanitize_filename"
    /\ filename \in Filenames
    /\ sanitized = NotSet
    /\ resanitized = NotSet
    /\ IdleRender
    /\ IdleFilter /\ IdleFetch /\ IdleBatch

SanitizeFilename ==
    /\ pc = "sanitize_filename"
    /\ sanitized' = sanitize_filename(filename)
    /\ pc' = "sanitize_filename_return"
    /\ UNCHANGED <<transcript_data, locals, raised, filename, resanitized,
                   filterVars, fetchVars, batchVars>>

\* the returned name is given to sanitize_filename once more
SanitizeAgain ==
    /\ pc = "sanitize_filename_return"
    /\ resanitized' = sanitize_filename(sanitized)
    /\ pc' = "sanitize_filename_again"
    /\ UNCHANGED <<transcript_data, locals, raised, filename, sanitized,
                   filterVars, fetchVars, batchVars>>

NextSanitize == SanitizeFilename \/ SanitizeAgain

SpecSanitize == InitSanitize /\ [][NextSanitize]_vars

(***************************************************************************)
(* filter_documents_by_date (download_transcripts.py, download_meetings.py: *)
(* the two copies are the same text).                                      *)
(***************************************************************************)
MaxDocuments == 2     \* longest document list

\* cutoff_date = datetime.now() - timedelta(days=days_ago): a naive datetime,
\* kept as its day number and the seconds into that day
CutoffDate(now_dt, days) ==
    [ ordinal |-> ToOrdinal(now_dt) - days, seconds |-> ClockSeconds(now_dt) ]

\* doc_date >= cutoff_date: Python refuses to compare an aware datetime with
\* a naive one
NotBefore(doc_date, cutoff_date) ==
    IF doc_date.aware THEN Raise("TypeError")
    ELSE Return(\/ ToOrdinal(doc_date) > cutoff_date.ordinal
                \/ /\ ToOrdinal(doc_date) = cutoff_date.ordinal
                   /\ ClockSeconds(doc_date) >= cutoff_date.seconds)

ParsedNotBefore(doc_date, cutoff_date) ==      \* lines 191-192
    IF doc_date.raises # NoException THEN doc_date
    ELSE NotBefore(doc_date.value, cutoff_date)

\* the except branch appends the document (line 197)
Appended(compared) ==
    IF compared.raises # NoException THEN TRUE ELSE compared.value

KeepDocument(doc, cutoff_date) ==              \* the loop body, lines 187-197
    /\ Truthy(Get(doc, "created_at", None))
    /\ Appended(ParsedNotBefore(fromisoformat(ReplaceZ(doc.created_at)),
                                cutoff_date))

filter_documents_by_date(docs, days, now_dt) ==
    Pick(docs,
         { i \in 1..Len(docs) : KeepDocument(docs[i], CutoffDate(now_dt, days)) },
         1, Len(docs))

MakeDocument(id, title_, created) ==
    [ keys |-> { "id" } \cup (IF title_.has THEN { "title" } ELSE {})
                 \cup (IF created.has THEN { "created_at" } ELSE {}),
      id |-> id, title |-> title_.v, created_at |-> created.v ]

\* creation dates around 2024-01-10T12:00:00, naive and aware
CreationDates ==
    Optional({ <<>>, Malformed,
               Stamp(10, 12, 0, <<>>), Stamp(9, 12, 0, <<>>), Stamp(9, 11, 59, <<>>),
               Stamp(1, 0, 0, <<>>), Stamp(10, 12, 0, Zulu), Stamp(1, 0, 0, Zulu),
               Stamp(1, 0, 0, << "+", "0", "0", ":", "0", "0" >>) }, <<>>)

DatedDocuments ==
    { MakeDocument(id, NoStr, created) : id \in 1..MaxDocuments, created \in CreationDates }

DocumentLists ==
    { l \in ListsUpTo(DatedDocuments, MaxDocuments) :
        \A i \in 1..Len(l) : l[i].id = i }

DayLimits == Optional({ 0, 1, 5 }, 0)

InitFilter ==
    /\ pc = "filter_documents_by_date"
    /\ documents \in DocumentLists
    /\ days_ago \in DayLimits
    /\ now = fromisoformat(Stamp(10, 12, 0, <<>>)).value
    /\ filtered_docs = NotSet
    /\ filename = <<>> /\ sanitized = NotSet /\ resanitized = NotSet
    /\ IdleRender /\ IdleFetch /\ IdleBatch

ReturnUnfiltered ==              \* lines 180-181
    /\ pc = "filter_documents_by_date"
    /\ ~days_ago.has
    /\ filtered_docs' = documents
    /\ pc' = "filter_documents_by_date_return"
    /\ UNCHANGED <<transcript_data, locals, raised, filename, sanitized,
                   resanitized, documents, days_ago, now, fetchVars, batchVars>>

FilterByDate ==                  \* lines 183-200
    /\ pc = "filter_documents_by_date"
    /\ days_ago.has
    /\ filtered_docs' = filter_documents_by_date(documents, days_ago.v, now)
    /\ pc' = "filter_documents_by_date_return"
    /\ UNCHANGED <<transcript_data, locals, raised, filename, sanitized,
                   resanitized, documents, days_ago, now, fetchVars, batchVars>>

NextFilter == ReturnUnfiltered \/ FilterByDate

SpecFilter == InitFilter /\ [][NextFilter]_vars

(***************************************************************************)
(* fetch_granola_documents (download_transcripts.py, download_meetings.py: *)
(* the two copies differ in one request field only).  The server answers   *)
(* each request with a page of documents or the request fails.             *)
(***************************************************************************)
MaxLimit == 2         \* largest page size asked for
MaxRequests == 3      \* the server sends a short page by this request at the latest

DocumentIds == { "d1", "d2" }

\* the pages the server can send in answer to a request for limit documents;
\* nothing keeps a server from sending more than it was asked for
ServerPages(limit_arg) == ListsUpTo(DocumentIds, limit_arg + 1)

\* variant: the loop ends on an empty page only
IsLastPageEmptyOnly(docs, limit_arg) == docs = <<>>

\* the two break conditions, lines 93 and 99
IsLastPage(docs, limit_arg) == docs = <<>> \/ Len(docs) < limit_arg

InitFetch ==
    /\ pc = "fetch_granola_documents"
    /\ limit \in 1..MaxLimit
    /\ offset = 0
    /\ all_documents = <<>>
    /\ requested = <<>>
    /\ pages = <<>>
    /\ fetched = NotSet
    /\ filename = <<>> /\ sanitized = NotSet /\ resanitized = NotSet
    /\ IdleRender /\ IdleFilter /\ IdleBatch

\* one turn of the loop that goes on: a page that is not the last (lines 79-105)
FetchPage ==
    /\ pc = "fetch_granola_documents"
    /\ Len(requested) + 1 < MaxRequests
    /\ \E docs \in ServerPages(limit) :
          /\ ~IsLastPage(docs, limit)
          /\ pages' = Append(pages, docs)
          /\ all_documents' = all_documents \o docs
    /\ requested' = Append(requested, offset)
    /\ offset' = offset + limit
    /\ UNCHANGED <<pc, limit, fetched>>
    /\ UNCHANGED <<transcript_data, locals, raised, filename, sanitized,
                   resanitized, filterVars, batchVars>>

\* the turn that breaks out of the loop, and the return (lines 79-100, 111-112)
FetchLastPage ==
    /\ pc = "fetch_granola_documents"
    /\ \E docs \in ServerPages(limit) :
          /\ IsLastPage(docs, limit)
          /\ pages' = Append(pages, docs)
          /\ all_documents' = all_documents \o docs
          /\ fetched' = all_documents \o docs
    /\ requested' = Append(requested, offset)
    /\ pc' = "fetch_granola_documents_return"
    /\ UNCHANGED <<limit, offset>>
    /\ UNCHANGED <<transcript_data, locals, raised, filename, sanitized,
                   resanitized, filterVars, batchVars>>

\* the request, its status check or the decoding of its answer raises
\* (lines 87-91, 107-109)
FetchFails ==
    /\ pc = "fetch_granola_documents"
    /\ requested' = Append(requested, offset)
    /\ fetched' = None
    /\ pc' = "fetch_granola_documents_return"
    /\ UNCHANGED <<limit, offset, all_documents, pages>>
    /\ UNCHANGED <<transcript_data, locals, raised, filename, sanitized,
                   resanitized, filterVars, batchVars>>

NextFetch == FetchPage \/ FetchLastPage \/ FetchFails

\* the loop is sequential code: it takes its next turn as long as it has one
SpecFetch == InitFetch /\ [][NextFetch]_vars /\ WF_vars(NextFetch)

(***************************************************************************)
(* File names of the downloaders (download_transcripts.py; the loop of     *)
(* download_meetings.py computes the same name inline).                    *)
(***************************************************************************)
\* ''.join(c for c in title if c not in invalid_chars)
RemoveInvalid(s) ==
    Pick(s, { i \in 1..Len(s) : s[i] \notin UnsafeChars }, 1, Len(s))

\* '_'.join(s.split()) of a string that neither starts nor ends with
\* whitespace: each run of whitespace becomes one '_'
UnderscoreRuns(s) ==
    Pick([ i \in 1..Len(s) |-> IF s[i] \in string_whitespace THEN "_" ELSE s[i] ],
         { i \in 1..Len(s) :
             s[i] \notin string_whitespace \/ s[i - 1] \notin string_whitespace },
         1, Len(s))

\* sanitize_filename of the downloaders, lines 155-173
sanitize_filename_download(title_arg) ==
    IF ~Truthy(title_arg) \/ Strip(title_arg, string_whitespace) = <<>> THEN Untitled
    ELSE OrUntitled(Prefix(Strip(UnderscoreRuns(Strip(RemoveInvalid(title_arg),
                                                      string_whitespace)),
                                 { "_" }),
                           MaxFilenameLength))

\* dt.strftime('%Y-%m-%d')
StrftimeDate(dt) ==
    FourDigits(dt.year) \o << "-" >> \o TwoDigits(dt.month) \o << "-" >>
        \o TwoDigits(dt.day)

DateOf(dt, today) ==             \* lines 205-212
    IF dt.raises # NoException THEN today ELSE StrftimeDate(dt.value)

generate_filename(title_arg, created_at, today) ==
    (IF Truthy(created_at) THEN DateOf(fromisoformat(ReplaceZ(created_at)), today)
     ELSE today)
        \o << "_" >> \o sanitize_filename_download(title_arg)
        \o << ".", "j", "s", "o", "n" >>

(***************************************************************************)
(* The batch drivers: convert_transcripts (convert_to_markdown.py),        *)
(* download_transcripts and download_meetings.  One action is one turn of  *)
(* a driver's loop.  The output directory maps the names of the files it   *)
(* holds to their contents; what goes wrong in a turn (its fate) is the    *)
(* environment's choice.                                                   *)
(***************************************************************************)
MaxItems == 2         \* longest list of input files / documents

Absent == [ state |-> "absent", by |-> 0, run |-> 0 ]
OldContent == [ state |-> "old", by |-> 0, run |-> 0 ]

Exists(fs, name) == name \in DOMAIN fs                  \* Path.exists()
ContentOf(fs, name) == IF Exists(fs, name) THEN fs[name] ELSE Absent

\* open(name, 'w') followed by writes that left `content`
WriteFile(fs, name, content) ==
    [ n \in DOMAIN fs \cup { name } |-> IF n = name THEN content ELSE fs[n] ]

\* fates of a turn: "ok"; a failure before the target is opened ("read",
\* "render", "fetch"); open(target, 'w') raises ("open"); a write to the
\* opened target raises ("write"); "none" when nothing is attempted
ConvertFates == { "ok", "read", "render", "open", "write" }
TranscriptFates == { "ok", "fetch", "open", "write" }
MeetingFates == { "ok", "open", "write" }

\* variant: an existing target is never a reason to skip
SkipsNothing(exists, force_arg) == FALSE

\* `path.exists() and not force`
SkipsExisting(exists, force_arg) == exists /\ ~force_arg

FatesOf(exists, fates) ==
    IF SkipsExisting(exists, force) THEN { "none" } ELSE fates

\* the directory after a turn with this fate: open(.., 'w') creates or
\* truncates the target, the writes fill it or stop part of the way
FilesAfter(name, fate) ==
    IF fate = "ok"
    THEN WriteFile(files, name, [ state |-> "written", by |-> index + 1, run |-> run ])
    ELSE IF fate = "write"
    THEN WriteFile(files, name, [ state |-> "partial", by |-> index + 1, run |-> run ])
    ELSE files

\* the try block of convert_transcript_file, lines 246-263
convert_try(exists, force_arg, fate) ==
    IF SkipsExisting(exists, force_arg) THEN Return(FALSE)
    ELSE IF fate = "ok" THEN Return(TRUE)
    ELSE Raise(fate)

\* variant: no try/except in convert_transcript_file
convert_transcript_file_unguarded(exists, force_arg, fate) ==
    convert_try(exists, force_arg, fate)

convert_transcript_file(exists, force_arg, fate) ==
    Except(convert_try(exists, force_arg, fate), FALSE)

\* the counter that lines 317-322 increment
ConvertOutcome(result, exists_after, force_arg) ==
    IF result THEN "done"
    ELSE IF exists_after /\ ~force_arg THEN "skipped"
    ELSE "error"

\* process_document lines 229-261, and the same steps inline in
\* download_meetings lines 281-300
process_document(exists, force_arg, fate) ==
    IF SkipsExisting(exists, force_arg) THEN "skipped"
    ELSE IF fate = "ok" THEN "done"
    ELSE "error"

\* one more item is counted and the loop moves on
Count(outcome, name, fate) ==
    /\ done_count' = done_count + (IF outcome = "done" THEN 1 ELSE 0)
    /\ skipped_count' = skipped_count + (IF outcome = "skipped" THEN 1 ELSE 0)
    /\ error_count' = error_count + (IF outcome = "error" THEN 1 ELSE 0)
    /\ index' = index + 1
    /\ log' = Append(log, [ run |-> run, item |-> index + 1, force |-> force,
                            target |-> name, outcome |-> outcome,
                            opened |-> fate \in { "ok", "write" },
                            failed |-> fate \notin { "ok", "none" },
                            before |-> ContentOf(files, name),
                            after |-> ContentOf(files', name) ])
    /\ UNCHANGED <<pc, raised>>

\* an exception leaves the loop: the driver logs it and raises it again
Abort(exception) ==
    /\ Propagate(exception)
    /\ UNCHANGED <<index, log, done_count, skipped_count, error_count>>

Converted(result, output_file, fate) ==        \* lines 315-322
    IF result.raises # NoException THEN Abort(result.raises)
    ELSE Count(ConvertOutcome(result.value, Exists(files', output_file), force),
               output_file, fate)

ConvertTurn(output_file, fate) ==              \* lines 308-322
    /\ files' = FilesAfter(output_file, fate)
    /\ Converted(convert_transcript_file(Exists(files, output_file), force, fate),
                 output_file, fate)

DownloadTurn(file_path, fate) ==
    /\ files' = FilesAfter(file_path, fate)
    /\ Count(process_document(Exists(files, file_path), force, fate), file_path, fate)

MdName(stem) == sanitize_filename(stem) \o << ".", "m", "d" >>     \* lines 310-311

Today == << "2", "0", "2", "4", "-", "0", "1", "-", "1", "0" >>

JsonName(doc) ==                 \* lines 220-227
    generate_filename(Get(doc, "title", << "U", "n", "t", "i", "t", "l", "e", "d" >>),
                      Get(doc, "created_at", <<>>), Today)

InLoop(name) ==
    /\ pc = "batch_loop"
    /\ driver = name
    /\ index < Len(work_items)

ConvertFile ==                   \* convert_transcripts, lines 308-322
    /\ InLoop("convert_transcripts")
    /\ \E fate \in FatesOf(Exists(files, MdName(work_items[index + 1].stem)), ConvertFates) :
          ConvertTurn(MdName(work_items[index + 1].stem), fate)
    /\ UNCHANGED <<driver, force, work_items, run>>
    /\ UNCHANGED <<transcript_data, locals, filename, sanitized, resanitized,
                   filterVars, fetchVars>>

ProcessDocument ==               \* download_transcripts, lines 317-328
    /\ InLoop("download_transcripts")
    /\ \E fate \in FatesOf(Exists(files, JsonName(work_items[index + 1])), TranscriptFates) :
          DownloadTurn(JsonName(work_items[index + 1]), fate)
    /\ UNCHANGED <<driver, force, work_items, run>>
    /\ UNCHANGED <<transcript_data, locals, filename, sanitized, resanitized,
                   filterVars, fetchVars>>

DownloadMeeting ==               \* download_meetings, lines 260-303
    /\ InLoop("download_meetings")
    /\ \E fate \in FatesOf(Exists(files, JsonName(work_items[index + 1])), MeetingFates) :
          DownloadTurn(JsonName(work_items[index + 1]), fate)
    /\ UNCHANGED <<driver, force, work_items, run>>
    /\ UNCHANGED <<transcript_data, locals, filename, sanitized, resanitized,
                   filterVars, fetchVars>>

Summary ==                       \* the loop is over: the counts are reported
    /\ pc = "batch_loop"
    /\ index = Len(work_items)
    /\ pc' = "batch_return"
    /\ UNCHANGED <<raised, batchVars>>
    /\ UNCHANGED <<transcript_data, locals, filename, sanitized, resanitized,
                   filterVars, fetchVars>>

\* the driver is run once more over the same inputs and the same directory
Rerun ==
    /\ pc = "batch_return"
    /\ run = 1
    /\ run' = 2
    /\ force' \in BOOLEAN
    /\ index' = 0
    /\ done_count' = 0 /\ skipped_count' = 0 /\ error_count' = 0
    /\ pc' = "batch_loop"
    /\ UNCHANGED <<raised, driver, work_items, files, log>>
    /\ UNCHANGED <<transcript_data, locals, filename, sanitized, resanitized,
                   filterVars, fetchVars>>

NextBatch == ConvertFile \/ ProcessDocument \/ DownloadMeeting \/ Summary \/ Rerun

\* the JSON files of an input directory: their names differ
JsonFiles ==
    { l \in ListsUpTo({ [ stem |-> << "a", "-", "b" >> ],
                        [ stem |-> << "a", "-", "-", "b" >> ],
                        [ stem |-> << "c" >> ] }, MaxItems) :
        \A i, j \in 1..Len(l) : i # j => l[i] # l[j] }

\* the documents of an account: titles and dates may repeat
Documents ==
    ListsUpTo({ MakeDocument(1, NoStr, Value(Stamp(1, 0, 0, Zulu))),
                MakeDocument(2, Value(<< "T", "/" >>), Value(<<>>)) }, MaxItems)

TargetsOf(name, list) ==
    IF name = "convert_transcripts"
    THEN { MdName(list[i].stem) : i \in 1..Len(list) }
    ELSE { JsonName(list[i]) : i \in 1..Len(list) }

\* output directories that hold some of the targets already
Directories(name, list) ==
    { [ n \in present |-> OldContent ] : present \in SUBSET TargetsOf(name, list) }

InitBatch ==
    /\ pc = "batch_loop"
    /\ driver \in { "convert_transcripts", "download_transcripts", "download_meetings" }
    /\ force \in BOOLEAN
    /\ work_items \in (IF driver = "convert_transcripts" THEN JsonFiles ELSE Documents)
    /\ files \in Directories(driver, work_items)
    /\ index = 0
    /\ done_count = 0 /\ skipped_count = 0 /\ error_count = 0
    /\ log = <<>>
    /\ run = 1
    /\ filename = <<>> /\ sanitized = NotSet /\ resanitized = NotSet
    /\ IdleRender /\ IdleFilter /\ IdleFetch

SpecBatch == InitBatch /\ [][NextBatch]_vars

(***************************************************************************)
(* Properties.                                                             *)
(***************************************************************************)
AfterBody == pc \in { "assemble", "return" }
AfterDuration == pc \in { "format_transcript_entries", "assemble", "return" }

RawEntries == Get(transcript_data, "transcript_entries", <<>>)

IsBlank(text) == \A i \in 1..Len(text) : text[i] \in string_whitespace
TextOf(entry) == IF Has(entry, "text") THEN entry.text ELSE <<>>

PermsOf(n) ==
    { p \in [ 1..n -> 1..n ] : \A i, j \in 1..n : i # j => p[i] # p[j] }
Permuted(list, p) == [ i \in 1..Len(list) |-> list[p[i]] ]

\* the body that lists the entries of `list` in the order of `list`
BodyInOrder(list, SpeakerOf(_)) ==
    LET kept == { i \in 1..Len(list) : ~IsBlank(TextOf(list[i])) }
        picked == Pick(list, kept, 1, Len(list))
    IN  Join(BlankLine, [ i \in 1..Len(picked) |->
                            FormatEntry(picked[i], SpeakerOf(picked[i])).value ])

\* C1: for every entry list, also a non-empty one, in which every entry's text
\* is empty or only whitespace, format_transcript_entries returns exactly
\* "*No transcript available*".
C1_BlankEntriesGivePlaceholder ==
    (AfterBody /\ \A i \in 1..Len(entries) : IsBlank(TextOf(entries[i])))
        => formatted_transcript = NoTranscript

\* C2: generate_markdown never raises and returns a string for every meeting
\* record whose fields are absent or of their declared type, malformed
\* timestamps and partly numbered entry lists included.
IsStr(s) == DOMAIN s = 1..Len(s) /\ \A i \in 1..Len(s) : s[i] \in Chars
C2_GenerateMarkdownNeverRaises ==
    /\ raised = NoException
    /\ pc # "raised"
    /\ pc = "return" =>
         \A field \in DOMAIN markdown_content : IsStr(markdown_content[field])

C2_Witness ==
    /\ pc = "return"
    /\ \E i \in 1..Len(entries) :
         /\ Has(entries[i], "start_timestamp")
         /\ entries[i].start_timestamp = Malformed
         /\ Has(entries[i], "end_timestamp")
         /\ entries[i].end_timestamp = Stamp(1, 11, 45, Zulu)

\* C3: when the first entry has sequence_number, the body lists the entries in
\* non-decreasing sequence_number order, an entry without the field counting
\* as 0 and equal keys keeping their input order; when all entries carry
\* distinct sequence_numbers the body is the same for every permutation of
\* the input list.
NumberOf(entry) == IF Has(entry, "sequence_number") THEN entry.sequence_number ELSE 0
C3_SequenceNumberOrder ==
    (AfterBody /\ entries # <<>> /\ Has(entries[1], "sequence_number")) =>
        LET n == Len(entries)
        IN  /\ \E p \in PermsOf(n) :
                  /\ \A i \in 1..(n - 1) :
                        \/ NumberOf(entries[p[i]]) < NumberOf(entries[p[i + 1]])
                        \/ /\ NumberOf(entries[p[i]]) = NumberOf(entries[p[i + 1]])
                           /\ p[i] < p[i + 1]
                  /\ formatted_transcript = BodyInOrder(Permuted(entries, p), BodySpeakerName)
            /\ ( /\ \A i \in 1..n : Has(entries[i], "sequence_number")
                 /\ \A i, j \in 1..n :
                       i # j => entries[i].sequence_number # entries[j].sequence_number )
               => \A p \in PermsOf(n) :
                     format_transcript_entries(Permuted(entries, p)).value
                         = formatted_transcript

C3_Witness ==
    /\ pc = "return"
    /\ Len(entries) = 2
    /\ Has(entries[1], "sequence_number")
    /\ ~Has(entries[2], "sequence_number")
    /\ entries[1].sequence_number = 1
    /\ entries[1].text # entries[2].text

\* C4: the sort key is chosen from the first entry only.  When the first entry
\* has no sequence_number, the sequence_numbers of later entries do not
\* influence the order: the body is in lexicographic start_timestamp order
\* (a missing one is the empty string and sorts first) if the first entry has
\* start_timestamp, and in input order otherwise.
StartOf(entry) == IF Has(entry, "start_timestamp") THEN entry.start_timestamp ELSE <<>>
WithoutNumbers(list) ==
    [ i \in 1..Len(list) |->
        [ list[i] EXCEPT !.keys = @ \ { "sequence_number" }, !.sequence_number = 0 ] ]
C4_KeyChosenFromFirstEntry ==
    (AfterBody /\ entries # <<>> /\ ~Has(entries[1], "sequence_number")) =>
        LET n == Len(entries)
        IN  /\ format_transcript_entries(WithoutNumbers(entries)).value
                   = formatted_transcript
            /\ IF Has(entries[1], "start_timestamp")
               THEN \E p \in PermsOf(n) :
                      /\ \A i \in 1..(n - 1) :
                            \/ StrLess(StartOf(entries[p[i]]), StartOf(entries[p[i + 1]]))
                            \/ /\ StartOf(entries[p[i]]) = StartOf(entries[p[i + 1]])
                               /\ p[i] < p[i + 1]
                      /\ formatted_transcript
                             = BodyInOrder(Permuted(entries, p), BodySpeakerName)
               ELSE formatted_transcript = BodyInOrder(entries, BodySpeakerName)

C4_Witness ==
    /\ pc = "return"
    /\ Len(entries) = 2
    /\ ~Has(entries[1], "sequence_number")
    /\ Has(entries[2], "sequence_number")
    /\ entries[2].sequence_number = -1
    /\ Has(entries[1], "start_timestamp")
    /\ StrLess(StartOf(entries[2]), StartOf(entries[1]))

\* C5: the speaker name in the body and the one counted in the statistics are
\* the same value: "me" if source is "microphone" (also when speaker is set),
\* otherwise the speaker field if not empty, otherwise "them".
AttributedSpeaker(entry) ==
    IF Has(entry, "source") /\ entry.source = Microphone THEN Me
    ELSE IF Has(entry, "speaker") /\ entry.speaker # <<>> THEN entry.speaker
    ELSE Them
C5_SameSpeakerInBodyAndStats ==
    (AfterBody /\ entries # <<>>) =>
        /\ formatted_transcript = BodyInOrder(SortEntries(entries), AttributedSpeaker)
        /\ stats.speakers
             = Cardinality({ AttributedSpeaker(entries[i]) : i \in 1..Len(entries) })

C5_Witness ==
    /\ pc = "return"
    /\ Len(entries) = 2
    /\ \A i \in 1..2 : Has(entries[i], "source") /\ entries[i].source = Microphone
    /\ Has(entries[1], "speaker") /\ entries[1].speaker = << "A", "l" >>
    /\ ~Has(entries[2], "speaker")
    /\ entries[1].text # <<>>
    /\ stats.speakers = 1

\* C6: when the minimum start and the maximum end timestamp both parse,
\* calculate_duration reports the wall-clock difference: H hours and M minutes
\* with 0 <= M < 60 and H*60 + M the whole minutes of (end - start), also for
\* differences of 24 hours or more; the hours are printed exactly when H >= 1,
\* "hours" when H > 1, "minutes" when M # 1.
StartsOf(list) ==
    { list[i].start_timestamp : i \in { j \in 1..Len(list) :
        Has(list[j], "start_timestamp") /\ list[j].start_timestamp # <<>> } }
EndsOf(list) ==
    { list[i].end_timestamp : i \in { j \in 1..Len(list) :
        Has(list[j], "end_timestamp") /\ list[j].end_timestamp # <<>> } }
Earliest(strs) == CHOOSE x \in strs : \A y \in strs : x = y \/ StrLess(x, y)
Latest(strs) == CHOOSE x \in strs : \A y \in strs : x = y \/ StrLess(y, x)
Parsed(str) == fromisoformat(ReplaceZ(str))
WholeMinutes(end_dt, start_dt) ==
    ( (ToOrdinal(end_dt) - ToOrdinal(start_dt)) * 86400
        + (end_dt.hour - start_dt.hour) * 3600
        + (end_dt.minute - start_dt.minute) * 60
        + (end_dt.second - start_dt.second)
        - (end_dt.utcoffset - start_dt.utcoffset) ) \div 60
ClockText(total) ==
    LET H == total \div 60
        M == total % 60
        minutesText == IntToStr(M) \o (IF M # 1 THEN << " ", "m", "i", "n", "u", "t", "e", "s" >>
                                               ELSE << " ", "m", "i", "n", "u", "t", "e" >>)
    IN  IF H >= 1
        THEN IntToStr(H) \o (IF H > 1 THEN << " ", "h", "o", "u", "r", "s", " " >>
                                      ELSE << " ", "h", "o", "u", "r", " " >>)
               \o minutesText
        ELSE minutesText
BothParse(list) ==
    /\ StartsOf(list) # {} /\ EndsOf(list) # {}
    /\ Parsed(Earliest(StartsOf(list))).raises = NoException
    /\ Parsed(Latest(EndsOf(list))).raises = NoException
    /\ Parsed(Earliest(StartsOf(list))).value.aware
         = Parsed(Latest(EndsOf(list))).value.aware
C6_DurationIsWallClockDifference ==
    (AfterDuration /\ BothParse(entries)) =>
        duration = ClockText(WholeMinutes(Parsed(Latest(EndsOf(entries))).value,
                                          Parsed(Earliest(StartsOf(entries))).value))

\* C7: calculate_duration returns "Unknown" and does not raise when the list
\* is empty, no entry has a start_timestamp, no entry has an end_timestamp, or
\* the minimum start / maximum end does not parse; the timestamps are taken
\* from all entries, those with empty text included.
C7_UnknownDuration ==
    AfterDuration =>
        /\ raised = NoException
        /\ ( \/ entries = <<>>
             \/ StartsOf(entries) = {}
             \/ EndsOf(entries) = {}
             \/ Parsed(Earliest(StartsOf(entries))).raises # NoException
             \/ Parsed(Latest(EndsOf(entries))).raises # NoException )
           => duration = Unknown
        /\ BothParse(entries) => duration # Unknown

C7_Witness ==
    /\ pc = "return"
    /\ duration = Unknown
    /\ Len(entries) = 2
    /\ IsBlank(TextOf(entries[1]))
    /\ StartsOf(entries) = { Stamp(1, 10, 0, Zulu) }
    /\ EndsOf(entries) = { Stamp(1, 11, 45, Zulu), Malformed }

\* C8: generate_markdown leaves the entry list as it was given, across the
\* stats, duration and body computations; stats.total_entries is the length
\* of the raw list, the number of body lines is the number of entries whose
\* trimmed text is not empty.
BodyLineCount(body) ==
    IF body = <<>> \/ body = NoTranscript THEN 0
    ELSE 1 + Cardinality({ i \in 1..(Len(body) - 1) : body[i] = LF /\ body[i + 1] = LF })
C8_EntryListNotMutated ==
    /\ pc # "generate_markdown" => entries = RawEntries
    /\ pc = "return" =>
         /\ stats.total_entries = Len(RawEntries)
         /\ BodyLineCount(formatted_transcript)
              = Cardinality({ i \in 1..Len(RawEntries) : ~IsBlank(TextOf(RawEntries[i])) })

C8_Witness ==
    /\ pc = "return"
    /\ stats.total_entries = 2
    /\ SortEntries(RawEntries) # RawEntries
    /\ BodyLineCount(formatted_transcript) = 1

\* C9: the title line is "# Untitled Meeting" whenever the record's title is
\* absent or the empty string; otherwise it is "# " followed by the title.
C9_TitleLine ==
    pc = "return" =>
        markdown_content.title_line =
            << "#", " " >> \o (IF ~Has(transcript_data, "title") \/ transcript_data.title = <<>>
                               THEN UntitledMeeting
                               ELSE transcript_data.title)

\* C10: sanitize_filename returns a non-empty string of at most 100 characters
\* with none of <>:"/\|?* and no non-printable character, with no two
\* consecutive '-' and no leading or trailing '-'; it returns "untitled" when
\* nothing else remains.
C10_SanitizedNameIsClean ==
    pc = "sanitize_filename_return" =>
        /\ sanitized # <<>>
        /\ Len(sanitized) <= 100
        /\ \A i \in 1..Len(sanitized) :
              sanitized[i] \in string_printable /\ sanitized[i] \notin UnsafeChars
        /\ \A i \in 1..(Len(sanitized) - 1) : ~(sanitized[i] = "-" /\ sanitized[i + 1] = "-")
        /\ sanitized[1] # "-"
        /\ sanitized[Len(sanitized)] # "-"
        /\ (\A i \in 1..Len(filename) :
               filename[i] = "-" \/ filename[i] \notin string_printable
                 \/ filename[i] \in UnsafeChars)
             => sanitized = Untitled

(***************************************************************************)
(* sanitize_filename applied twice.                                        *)
(***************************************************************************)
\* C18: sanitize_filename is idempotent: sanitizing a name that
\* sanitize_filename returned gives that same name back, also for inputs
\* longer than 100 characters.
C18_SanitizeIsIdempotent ==
    pc = "sanitize_filename_again" => resanitized = sanitized

(***************************************************************************)
(* filter_documents_by_date                                                *)
(***************************************************************************)
CreatedAt(doc) == Get(doc, "created_at", None)

Parses(doc) ==
    Truthy(CreatedAt(doc)) /\ fromisoformat(ReplaceZ(CreatedAt(doc))).raises = NoException

\* seconds from the cutoff (now - days, with now read as UTC) to the instant of
\* the document's creation
SecondsAfterCutoff(doc, days) ==
    LET doc_date == fromisoformat(ReplaceZ(CreatedAt(doc))).value
    IN  (ToOrdinal(doc_date) - (ToOrdinal(now) - days)) * 86400
          + ClockSeconds(doc_date) - ClockSeconds(now)

InTime(doc, days) ==
    /\ Truthy(CreatedAt(doc))
    /\ Parses(doc) => SecondsAfterCutoff(doc, days) >= 0

\* C13: with a day limit N, filter_documents_by_date returns, in their order,
\* exactly the documents whose created_at is present and either does not parse
\* or parses to an instant not earlier than N days before now; a document
\* older than the cutoff is never returned, whether or not its timestamp ends
\* in 'Z', and a document without created_at is never returned.
C13_FilterKeepsRecentDocuments ==
    (pc = "filter_documents_by_date_return" /\ days_ago.has) =>
        filtered_docs = Pick(documents,
                             { i \in 1..Len(documents) : InTime(documents[i], days_ago.v) },
                             1, Len(documents))

(***************************************************************************)
(* fetch_granola_documents                                                 *)
(***************************************************************************)
RECURSIVE Concatenation(_)
Concatenation(lists) ==
    IF lists = <<>> THEN <<>> ELSE Head(lists) \o Concatenation(Tail(lists))

ShortPage(docs) == Len(docs) < limit

FetchReturned == pc = "fetch_granola_documents_return"

FetchInOrder ==
    /\ \A k \in 1..Len(requested) : requested[k] = (k - 1) * limit
    /\ \A k \in 1..(Len(pages) - 1) : ~ShortPage(pages[k])
    /\ ~FetchReturned =>
          /\ Len(pages) = Len(requested)
          /\ \A k \in 1..Len(pages) : ~ShortPage(pages[k])
    /\ (FetchReturned /\ fetched # None) =>
          /\ Len(pages) = Len(requested)
          /\ ShortPage(pages[Len(pages)])
          /\ fetched = Concatenation(pages)
    /\ (FetchReturned /\ fetched = None) => Len(pages) = Len(requested) - 1

\* C15: fetch_granola_documents asks for the pages at offsets 0, limit,
\* 2*limit, ...; it stops at the first page that is empty or shorter than
\* limit and returns all received pages concatenated in request order; a
\* failed request makes it return None, whatever it had received; and with a
\* server that sends a short page at some point, it returns.
C15_PaginationReturns == []FetchInOrder /\ <>FetchReturned

C15_Witness ==
    /\ FetchReturned
    /\ Len(requested) = MaxRequests
    /\ fetched = Concatenation(pages)
    /\ Len(pages[MaxRequests]) = 1
    /\ Len(fetched) > 2 * limit

(***************************************************************************)
(* The batch drivers.  log[k] tells what the k-th turn did: whether the     *)
(* target was opened for writing, whether the attempt failed, the content  *)
(* of the target before and after, and the count the item went to.         *)
(***************************************************************************)
Turns == 1..Len(log)

Existed(turn) == turn.before # Absent

Rewritten(turn) ==
    turn.after = [ state |-> "written", by |-> turn.item, run |-> turn.run ]

SkipsWhenNotForced ==
    \A k \in Turns :
        (Existed(log[k]) /\ ~log[k].force) =>
            /\ ~log[k].opened
            /\ log[k].after = log[k].before
            /\ log[k].outcome = "skipped"

\* C11 as stated: in each of the three drivers, an item whose target exists
\* when its turn comes is, without force, skipped: the target is not opened
\* for writing, keeps its content, and the item is counted as skipped; with
\* force the target is rewritten.
C11_SkipUnlessForcedThenRewritten ==
    /\ SkipsWhenNotForced
    /\ \A k \in Turns : (Existed(log[k]) /\ log[k].force) => Rewritten(log[k])

\* C11, amended: without force an existing target is skipped as above; with
\* force an existing target never makes the item skipped: the item is
\* attempted, and the target is rewritten when the attempt succeeds.
C11_SkipUnlessForced ==
    /\ SkipsWhenNotForced
    /\ \A k \in Turns :
          (Existed(log[k]) /\ log[k].force) =>
              /\ log[k].outcome # "skipped"
              /\ log[k].failed \/ (log[k].outcome = "done" /\ Rewritten(log[k]))

C11_Witness ==
    /\ Len(log) = 2
    /\ log[1].before = OldContent /\ ~log[1].force /\ log[1].outcome = "skipped"
    /\ log[1].after = OldContent
    /\ log[2].before = OldContent /\ log[2].force /\ Rewritten(log[2])

TurnsCounted(outcome) ==
    Cardinality({ k \in Turns : log[k].run = run /\ log[k].outcome = outcome })

\* C12: no failure of one document aborts convert_transcripts; every JSON
\* file gets its turn, each turn adds one to exactly one of the three counts,
\* and at the end converted + skipped + errors is the number of JSON files.
C12_EveryFileCounted ==
    driver = "convert_transcripts" =>
        /\ pc # "raised"
        /\ done_count = TurnsCounted("done")
        /\ skipped_count = TurnsCounted("skipped")
        /\ error_count = TurnsCounted("error")
        /\ done_count + skipped_count + error_count = index
        /\ \A i \in 1..index : \E k \in Turns : log[k].run = run /\ log[k].item = i
        /\ pc = "batch_return" => index = Len(work_items)

C12_Witness ==
    /\ driver = "convert_transcripts"
    /\ pc = "batch_return"
    /\ run = 1
    /\ Len(log) = 2
    /\ log[1].failed /\ ~log[1].opened /\ log[1].outcome = "error"
    /\ ~log[2].failed /\ log[2].outcome = "done"
    /\ done_count = 1 /\ error_count = 1 /\ skipped_count = 0

\* C14: over two runs without force, an item whose attempt failed in the
\* first run (a failure while writing the output included) is attempted
\* again in the second run, not skipped, and an item that succeeded in the
\* first run is skipped in the second.
C14_RetryByRerun ==
    \A k1, k2 \in Turns :
        (/\ log[k1].run = 1 /\ log[k2].run = 2
         /\ log[k1].item = log[k2].item
         /\ ~log[k1].force /\ ~log[k2].force) =>
            /\ log[k1].failed => log[k2].outcome # "skipped"
            /\ log[k1].outcome = "done" => log[k2].outcome = "skipped"

\* C16: in one run of convert_transcripts different JSON files have
\* different Markdown targets, so no file finds its target written by
\* another file of the same run.
C16_DistinctOutputs ==
    driver = "convert_transcripts" =>
        /\ \A k1, k2 \in Turns :
              (k1 # k2 /\ log[k1].run = log[k2].run) => log[k1].target # log[k2].target
        /\ \A k \in Turns : log[k].before.run # log[k].run

\* C17: convert_transcripts counts a file as skipped only if its target was
\* there before the attempt and force is not set; a failed attempt, also one
\* that fails after the target was opened for writing, is counted as an error.
C17_SkippedOnlyIfExisted ==
    driver = "convert_transcripts" =>
        \A k \in Turns :
            /\ log[k].outcome = "skipped" => (Existed(log[k]) /\ ~log[k].force)
            /\ log[k].failed => log[k].outcome = "error"

====
